---- MODULE Spec2Model ----
(***************************************************************************)
(* The user-management API: the gin handlers of handlers/user_handlers.go  *)
(* and of the auth handlers, running concurrently against the one          *)
(* PostgreSQL table `users` created by initDB.                             *)
(*                                                                         *)
(* Each handler is a sequence of SQL statements.  A statement is atomic in *)
(* the database; whatever a handler computes between two statements is     *)
(* local to its goroutine.  The model has one action per statement, and    *)
(* the local computation that follows a statement is part of that action.  *)
(* The backing store is taken to be reachable: the 500 answers modelled    *)
(* are the ones a statement's own failure (a violated constraint) gives.   *)
(***************************************************************************)
EXTENDS Integers, Sequences, FiniteSets

(* ---------------------------------------------------------------- bounds *)

\* Request slots served concurrently by the router.
NumProcs == 2
\* Requests accepted in one run of the model.
MaxReqs == 3
\* Values the SERIAL sequence of users.id may hand out.
MaxId == 2
\* Salts bcrypt may draw.
MaxSalt == 1

Procs == 1..NumProcs
Ids == 1..MaxId
Salts == 1..MaxSalt

(* ------------------------------------------------- optional (pointer) values *)

\* A Go pointer field (*int, *string, *bool): nil is <<>>, a value v is <<v>>.
Nil == <<>>
Some(v) == <<v>>
IsNil(o) == o = <<>>
Deref(o) == o[1]

(* ------------------------------------------------------------ request data *)

Emails == {"a@x.io", "b@x.io"}
Passwords == {"secret", "hunter2"}

\* binding:"email": the address forms the validator accepts.
IsEmail(s) == s \in Emails

\* binding:"required,min=2,max=100" on a string.
MinNameLen == 2
MaxNameLen == 100
MinPasswordLen == 6
\* A name check without the upper limit.
ValidNameNoMax(s) == s # "" /\ Len(s) >= MinNameLen

ValidName(s) == s # "" /\ Len(s) >= MinNameLen /\ Len(s) <= MaxNameLen
ValidPassword(s) == s # "" /\ Len(s) >= MinPasswordLen
ValidEmail(s) == s # "" /\ IsEmail(s)

\* c.ShouldBindJSON(&req) on models.CreateUserRequest
BindCreateUserRequest(r) == ValidName(r.name) /\ ValidEmail(r.email) /\ ValidPassword(r.password)
\* c.ShouldBindJSON(&req) on models.SignupRequest
BindSignupRequest(r) == ValidName(r.name) /\ ValidEmail(r.email) /\ ValidPassword(r.password)
\* c.ShouldBindJSON(&req) on models.LoginRequest
BindLoginRequest(r) == ValidEmail(r.email) /\ r.password # ""
\* c.ShouldBindJSON(&req) on models.UpdateUserRequest: omitempty skips a nil
\* pointer and an empty string alike.
BindUpdateUserRequest(r) ==
    /\ (IsNil(r.name) \/ Deref(r.name) = "" \/ ValidName(Deref(r.name)))
    /\ (IsNil(r.email) \/ Deref(r.email) = "" \/ IsEmail(Deref(r.email)))

(* ------------------------------------------------------------------ bcrypt *)

\* bcrypt.GenerateFromPassword: the hash carries its salt and a digest of
\* salt and password.
Digest(salt, pw) == <<salt, pw>>
GenerateFromPassword(pw, salt) == [salt |-> salt, digest |-> Digest(salt, pw)]
\* A comparison that accepts every password.
CompareAnyPassword(hash, pw) == TRUE

\* A comparison that rejects every password.
CompareRejectAll(hash, pw) == FALSE

\* bcrypt.CompareHashAndPassword: nil error iff re-hashing the password with
\* the salt embedded in the hash reproduces the hash.
CompareHashAndPassword(hash, pw) == GenerateFromPassword(pw, hash.salt) = hash

(* ----------------------------------------------------------------- records *)

\* A projection that hands the struct out whole.
ToUserResponseWhole(u) == u

\* models.User.ToUserResponse
ToUserResponse(u) ==
    [id |-> u.id, name |-> u.name, email |-> u.email, age |-> u.age,
     is_active |-> u.is_active, created_at |-> u.created_at,
     updated_at |-> u.updated_at]

\* models.APIResponse
NoData == [kind |-> "none"]
UserData(u) == [kind |-> "user", user |-> ToUserResponse(u)]
ListData(s) == [kind |-> "list", users |-> s]
APIResponse(status, success, data, message) ==
    [status |-> status, success |-> success, data |-> data, message |-> message]

NoResp == APIResponse(0, FALSE, NoData, <<>>)
NoReq == [op |-> "none"]
NoLocal == [kind |-> "none"]

VARIABLES
    users,      \* the rows of table users
    nextId,     \* the next value of the SERIAL sequence users_id_seq
    clock,      \* wall-clock time
    pc,         \* pc[p]: the statement request slot p executes next
    req,        \* req[p]: the request slot p serves
    loc,        \* loc[p]: the handler's local variables
    resp,       \* resp[p]: the response written by c.JSON
    started,    \* number of requests accepted so far
    deleted,    \* history: the ids whose DELETE was answered with success
    hist,       \* history of slot p's request: the slots it overlapped with;
                \* whether, when it was accepted, the email it is to write
                \* was held by no row (and the row it is to change existed);
                \* whether that email was held by a row other than the one
                \* it is to change; whether its id had been deleted; whether
                \* it wrote
    created,    \* history: the user of every 201 response, with the
                \* password of its request
    modified    \* history: the ids of the rows an UPDATE or DELETE changed

vars == <<users, nextId, clock, pc, req, loc, resp, started, deleted, hist,
          created, modified>>

(* ---------------------------------------------------------------- requests *)

\* A name of 101 characters.
LongName ==
    "Noooooooooooooooooooooooooooooooooooooooooooooooooooooooooooooooooooooooooooooooooooooooooooooooooooo"

\* POST /api/users: well-formed bodies, and bodies with a name too short, an
\* email that is no address, a password too short, a name too long and the
\* age of the validation test of scripts/test-api.sh.
CreateUserRequests ==
    {[op |-> "createUser", name |-> "Al", email |-> e, password |-> "secret",
      age |-> Some(30), is_active |-> ia] :
        e \in Emails, ia \in {Nil, Some(FALSE)}}
    \cup {[op |-> "createUser", name |-> "J", email |-> "a@x.io",
           password |-> "secret", age |-> Nil, is_active |-> Nil],
          [op |-> "createUser", name |-> "Al", email |-> "nobody",
           password |-> "secret", age |-> Nil, is_active |-> Nil],
          [op |-> "createUser", name |-> "Al", email |-> "a@x.io",
           password |-> "123", age |-> Nil, is_active |-> Nil],
          [op |-> "createUser", name |-> LongName, email |-> "a@x.io",
           password |-> "secret", age |-> Nil, is_active |-> Nil],
          [op |-> "createUser", name |-> "Al", email |-> "b@x.io",
           password |-> "secret", age |-> Some(200), is_active |-> Nil]}
\* POST /api/auth/signup
SignupRequests ==
    {[op |-> "signup", name |-> "Bo", email |-> e, password |-> "hunter2",
      age |-> Nil] : e \in Emails \cup {""}}
\* POST /api/auth/login
LoginRequests ==
    {[op |-> "login", email |-> e, password |-> pw] :
        e \in Emails, pw \in Passwords}
    \cup {[op |-> "login", email |-> "a@x.io", password |-> ""]}
\* c.Param("id"): a decimal number, or text strconv.Atoi rejects.
IdParams == {[numeric |-> TRUE, n |-> i] : i \in Ids}
                \cup {[numeric |-> FALSE, n |-> 0]}
\* GET /api/users/:id
GetUserByIDRequests == {[op |-> "getById", id |-> i] : i \in IdParams}
\* GET /api/users
GetAllUsersRequests == {[op |-> "listAll"]}
\* PUT /api/users/:id: every subset of the four fields.
UpdateUserRequests ==
    {[op |-> "updateUser", method |-> "PUT", id |-> [numeric |-> TRUE, n |-> i],
      name |-> n, email |-> e, age |-> a, is_active |-> ia] :
        i \in Ids, n \in {Nil, Some("Bo")}, e \in {Nil, Some("b@x.io")},
        a \in {Nil, Some(31)}, ia \in {Nil, Some(FALSE)}}
    \cup {[op |-> "updateUser", method |-> "PUT",
           id |-> [numeric |-> FALSE, n |-> 0],
           name |-> Nil, email |-> Nil, age |-> Some(31), is_active |-> Nil],
          [op |-> "updateUser", method |-> "PUT",
           id |-> [numeric |-> TRUE, n |-> 1],
           name |-> Some("J"), email |-> Nil, age |-> Nil, is_active |-> Nil]}
\* PUT /api/users/1 with a new name and the email the first row was created
\* with.
OwnEmailUpdateRequests ==
    {[op |-> "updateUser", method |-> "PUT", id |-> [numeric |-> TRUE, n |-> 1],
      name |-> Some("Bo"), email |-> Some("a@x.io"), age |-> Nil,
      is_active |-> Nil]}
\* PATCH /api/users/:id: the same bodies sent with the other verb.
PatchUserRequests(requests) == {[r EXCEPT !.method = "PATCH"] : r \in requests}
\* DELETE /api/users/:id
DeleteUserRequests == {[op |-> "deleteUser", id |-> i] : i \in IdParams}

(* --------------------------------------------------------------------- SQL *)

\* An existence check that never finds a row.
SelectByEmailNone(rows, email) == {}

\* A query that stamps the rows it reads.
SelectTouches(rows) == {[u EXCEPT !.updated_at = @ + 1] : u \in rows}

\* The table after a SELECT statement: as it was.
SelectLeaves(rows) == rows

\* SELECT ... FROM users WHERE email = $1
SelectByEmail(rows, email) == {u \in rows : u.email = email}
\* A lookup that forgets its WHERE clause.
SelectByIDAny(rows, id) == rows

\* SELECT ... FROM users WHERE id = $1
SelectByID(rows, id) == {u \in rows : u.id = id}

\* A table created without the UNIQUE constraint on email.
UniqueViolationOff(rows, id, email) == FALSE

\* email VARCHAR(255) NOT NULL UNIQUE: would writing `email` into the row
\* `id` leave two rows with one email?
UniqueViolation(rows, id, email) ==
    \E u \in rows : u.email = email /\ u.id # id

\* A sequence that hands out the value it handed out before.
NextValStuck(seq) == seq

\* id SERIAL PRIMARY KEY: nextval('users_id_seq') moves the sequence on,
\* whether or not the INSERT that drew the value succeeds.
NextVal(seq) == seq + 1

\* A RETURNING list without the age column: Scan leaves user.Age nil.
ReturningWithoutAge(row) ==
    [id |-> row.id, name |-> row.name, email |-> row.email, age |-> Nil,
     is_active |-> row.is_active, created_at |-> row.created_at,
     updated_at |-> row.updated_at]

\* RETURNING id, name, email, age, is_active, created_at, updated_at, scanned
\* into a models.User: the password of the struct is not read back.
Returning(row) ==
    [id |-> row.id, name |-> row.name, email |-> row.email, age |-> row.age,
     is_active |-> row.is_active, created_at |-> row.created_at,
     updated_at |-> row.updated_at]

\* INSERT INTO users (...) VALUES (...) RETURNING ...: the new table.
InsertUser(rows, row) ==
    IF UniqueViolation(rows, row.id, row.email) THEN rows ELSE rows \cup {row}

\* The UPDATE fails: it matches a row and would give it the email of another.
UpdateRefused(rows, id, u) ==
    (\E r \in rows : r.id = id) /\ UniqueViolation(rows, id, u.email)

\* An UPDATE that writes the row although the statement fails.
UpdateUserUnchecked(rows, id, u) ==
    {IF r.id = id
     THEN [r EXCEPT !.name = u.name, !.email = u.email, !.age = u.age,
                    !.is_active = u.is_active, !.updated_at = u.updated_at]
     ELSE r : r \in rows}

\* An UPDATE that also sets created_at.
UpdateUserTouchCreated(rows, id, u) ==
    IF UpdateRefused(rows, id, u)
    THEN rows
    ELSE {IF r.id = id
          THEN [r EXCEPT !.name = u.name, !.email = u.email, !.age = u.age,
                         !.is_active = u.is_active, !.created_at = u.updated_at,
                         !.updated_at = u.updated_at]
          ELSE r : r \in rows}

\* An UPDATE that also writes the password of the struct, which no SELECT of
\* the handler filled.
UpdateUserBlankPassword(rows, id, u) ==
    IF UpdateRefused(rows, id, u)
    THEN rows
    ELSE {IF r.id = id
          THEN [r EXCEPT !.name = u.name, !.email = u.email, !.age = u.age,
                         !.is_active = u.is_active, !.updated_at = u.updated_at,
                         !.password = [salt |-> 0, digest |-> <<0, "">>]]
          ELSE r : r \in rows}

\* UPDATE users SET name, email, age, is_active, updated_at WHERE id = $6:
\* the new table.  A statement that matches no row changes nothing and is
\* no error.
UpdateUser(rows, id, u) ==
    IF UpdateRefused(rows, id, u)
    THEN rows
    ELSE {IF r.id = id
          THEN [r EXCEPT !.name = u.name, !.email = u.email, !.age = u.age,
                         !.is_active = u.is_active, !.updated_at = u.updated_at]
          ELSE r : r \in rows}

\* A DELETE that removes nothing.
DeleteUserNothing(rows, id) == rows

\* A soft delete: the row stays, marked inactive.
DeleteUserSoft(rows, id) ==
    {IF r.id = id THEN [r EXCEPT !.is_active = FALSE] ELSE r : r \in rows}

\* DELETE FROM users WHERE id = $1: the new table.
DeleteUser(rows, id) == {r \in rows : r.id # id}

\* SELECT ... FROM users ORDER BY created_at DESC: every order of the rows
\* the statement may return them in (rows of equal created_at come in any
\* order).
RECURSIVE RowOrders(_)
RowOrders(rows) ==
    IF rows = {} THEN {<<>>}
    ELSE UNION {{<<u>> \o s : s \in RowOrders(rows \ {u})} : u \in rows}
\* The rows from oldest to newest.
OrderByCreatedAtAsc(rows) ==
    {s \in RowOrders(rows) :
        \A i \in 1..(Len(s) - 1) : s[i].created_at <= s[i + 1].created_at}

OrderByCreatedAtDesc(rows) ==
    {s \in RowOrders(rows) :
        \A i \in 1..(Len(s) - 1) : s[i].created_at >= s[i + 1].created_at}

\* A merge that copies age from the request whether it is present or not.
MergeUpdateOverwrite(u, r, now) ==
    [u EXCEPT !.name = IF IsNil(r.name) THEN u.name ELSE Deref(r.name),
              !.email = IF IsNil(r.email) THEN u.email ELSE Deref(r.email),
              !.age = r.age,
              !.is_active = IF IsNil(r.is_active) THEN u.is_active
                            ELSE Deref(r.is_active),
              !.updated_at = now]

\* A merge that leaves the zero time in UpdatedAt.
MergeUpdateZeroTime(u, r, now) ==
    [u EXCEPT !.name = IF IsNil(r.name) THEN u.name ELSE Deref(r.name),
              !.email = IF IsNil(r.email) THEN u.email ELSE Deref(r.email),
              !.age = IF IsNil(r.age) THEN u.age ELSE r.age,
              !.is_active = IF IsNil(r.is_active) THEN u.is_active
                            ELSE Deref(r.is_active),
              !.updated_at = 0]

\* The handler's `if req.X != nil { existingUser.X = *req.X }` block and
\* existingUser.UpdatedAt = time.Now().
MergeUpdate(u, r, now) ==
    [u EXCEPT !.name = IF IsNil(r.name) THEN u.name ELSE Deref(r.name),
              !.email = IF IsNil(r.email) THEN u.email ELSE Deref(r.email),
              !.age = IF IsNil(r.age) THEN u.age ELSE r.age,
              !.is_active = IF IsNil(r.is_active) THEN u.is_active
                            ELSE Deref(r.is_active),
              !.updated_at = now]

(* ----------------------------------------------------------------- helpers *)

InFlight(p) == pc[p] \notin {"idle", "done"}
Done(p) == pc[p] = "done"

\* c.JSON(status, APIResponse{...}); return
Respond(p, r) ==
    /\ pc' = [pc EXCEPT ![p] = "done"]
    /\ resp' = [resp EXCEPT ![p] = r]
    /\ loc' = [loc EXCEPT ![p] = NoLocal]

\* The handler goes on to its next statement with locals l.
Continue(p, next, l) ==
    /\ pc' = [pc EXCEPT ![p] = next]
    /\ resp' = resp
    /\ loc' = [loc EXCEPT ![p] = l]

\* One statement sent to the database takes time.
Statement == clock' = clock + 1

NoHist ==
    [with |-> {}, emailFree |-> FALSE, emailTaken |-> FALSE,
     afterDelete |-> FALSE, wrote |-> FALSE]

TypeOK ==
    /\ nextId \in Nat
    /\ clock \in Nat
    /\ started \in 0..MaxReqs
    /\ \A u \in users : u.id \in 1..(nextId - 1)

Init ==
    /\ users = {}
    /\ nextId = 1
    /\ clock = 1
    /\ pc = [p \in Procs |-> "idle"]
    /\ req = [p \in Procs |-> NoReq]
    /\ loc = [p \in Procs |-> NoLocal]
    /\ resp = [p \in Procs |-> NoResp]
    /\ started = 0
    /\ deleted = {}
    /\ hist = [p \in Procs |-> NoHist]
    /\ created = {}
    /\ modified = {}

(* ------------------------------------------------------- accepting a request *)

\* A router that has PATCH /users/:id registered with GetUserByIDHandler.
RoutePatchToGet(method) ==
    CASE method = "GET" -> "get_lookup"
      [] method = "PUT" -> "update_load"
      [] method = "PATCH" -> "get_lookup"
      [] method = "DELETE" -> "delete_check"

\* users.GET("/:id", ...), users.PUT("/:id", ...), users.PATCH("/:id", ...),
\* users.DELETE("/:id", ...): the first statement of the handler registered
\* for the method.
RouteUserById(method) ==
    CASE method = "GET" -> "get_lookup"
      [] method = "PUT" -> "update_load"
      [] method = "PATCH" -> "update_load"
      [] method = "DELETE" -> "delete_check"

\* The router hands a request to a free slot.  `first` is the handler's first
\* statement; `bound` is the outcome of parsing the id and binding the body,
\* which need no statement: a request that fails there is answered at once.
Accept(p, r, first, bound, freeEmail, takenEmail, afterDelete) ==
    /\ pc[p] \in {"idle", "done"}
    /\ started < MaxReqs
    /\ started' = started + 1
    /\ req' = [req EXCEPT ![p] = r]
    /\ loc' = [loc EXCEPT ![p] = NoLocal]
    /\ pc' = [pc EXCEPT ![p] = IF bound THEN first ELSE "done"]
    /\ resp' = [resp EXCEPT ![p] =
                   IF bound THEN NoResp
                   ELSE APIResponse(400, FALSE, NoData, <<"Invalid request">>)]
    /\ hist' = [q \in Procs |->
                   IF q = p
                   THEN [with |-> {o \in Procs \ {p} : InFlight(o)},
                         emailFree |-> freeEmail, emailTaken |-> takenEmail,
                         afterDelete |-> afterDelete,
                         wrote |-> FALSE]
                   ELSE IF InFlight(q)
                        THEN [hist[q] EXCEPT !.with = @ \cup {p}]
                        ELSE hist[q]]
    /\ UNCHANGED <<users, nextId, clock, deleted, created, modified>>

\* History only: some row holds the email.
EmailHeld(email) == \E u \in users : u.email = email

StartCreateUser(p) ==
    \E r \in CreateUserRequests :
        /\ nextId + Cardinality({q \in Procs : pc[q] \in {"create_check", "create_insert", "signup_check", "signup_insert"}}) <= MaxId
        /\ Accept(p, r, "create_check", BindCreateUserRequest(r),
                  ~EmailHeld(r.email), FALSE, FALSE)

StartSignup(p) ==
    \E r \in SignupRequests :
        /\ nextId + Cardinality({q \in Procs : pc[q] \in {"create_check", "create_insert", "signup_check", "signup_insert"}}) <= MaxId
        /\ Accept(p, r, "signup_check", BindSignupRequest(r),
                  ~EmailHeld(r.email), FALSE, FALSE)

StartLogin(p) ==
    \E r \in LoginRequests :
        Accept(p, r, "login_lookup", BindLoginRequest(r), FALSE, FALSE, FALSE)

StartGetUserByID(p) ==
    \E r \in GetUserByIDRequests :
        Accept(p, r, RouteUserById("GET"), r.id.numeric, FALSE, FALSE,
               r.id.n \in deleted)

StartGetAllUsers(p) ==
    \E r \in GetAllUsersRequests :
        Accept(p, r, "list_query", TRUE, FALSE, FALSE, FALSE)

AcceptUpdateUser(p, requests) ==
    \E r \in requests :
        Accept(p, r, RouteUserById(r.method),
               r.id.numeric /\ BindUpdateUserRequest(r),
               /\ ~IsNil(r.email) /\ (\E u \in users : u.id = r.id.n)
               /\ ~EmailHeld(Deref(r.email)),
               /\ ~IsNil(r.email) /\ (\E u \in users : u.id = r.id.n)
               /\ \E u \in users : u.email = Deref(r.email) /\ u.id # r.id.n,
               r.id.n \in deleted)

StartUpdateUser(p) == AcceptUpdateUser(p, UpdateUserRequests)

\* The updates of the seeded runs, sent with either verb: a patch of the name
\* alone, of the email alone or of the age alone, and the patch that repeats
\* the row's own email.
SeededUpdateRequests ==
    LET single == {r \in UpdateUserRequests :
                      /\ r.id.numeric /\ IsNil(r.is_active)
                      /\ r.name \in {Nil, Some("Bo")}
                      /\ Cardinality({f \in {"name", "email", "age"} :
                                         ~IsNil(r[f])}) = 1}
                  \cup OwnEmailUpdateRequests
    IN single \cup PatchUserRequests(single)

StartSeededUpdateUser(p) == AcceptUpdateUser(p, SeededUpdateRequests)

StartDeleteUser(p) ==
    \E r \in DeleteUserRequests :
        Accept(p, r, RouteUserById("DELETE"), r.id.numeric, FALSE, FALSE,
               r.id.n \in deleted)

(* ---------------------------------------------- CreateUserHandler / Signup *)

\* SELECT id FROM users WHERE email = $1, then the password hash.
ExistsCheck(p, here, next) ==
    /\ pc[p] = here
    /\ Statement
    /\ IF SelectByEmail(users, req[p].email) # {}
       THEN /\ Respond(p, APIResponse(409, FALSE, NoData,
                   <<"User with email", req[p].email, "already exists">>))
       ELSE \E salt \in Salts :
               Continue(p, next,
                        [kind |-> "insert",
                         hashedPassword |-> GenerateFromPassword(req[p].password, salt),
                         since |-> clock'])
    /\ users' = SelectLeaves(users)
    /\ UNCHANGED <<nextId, req, started, deleted, hist, created, modified>>

\* now := time.Now(), then INSERT INTO users ... RETURNING ...
InsertStep(p, here, isActive) ==
    /\ pc[p] = here
    /\ Statement
    /\ \E now \in loc[p].since..clock :
         LET row == [id |-> nextId, name |-> req[p].name, email |-> req[p].email,
                     password |-> loc[p].hashedPassword, age |-> req[p].age,
                     is_active |-> isActive, created_at |-> now, updated_at |-> now]
             user == Returning(row)
         IN /\ users' = InsertUser(users, row)
            /\ nextId' = NextVal(nextId)
            /\ IF ~UniqueViolation(users, row.id, row.email)
               THEN /\ Respond(p, APIResponse(201, TRUE, UserData(user), <<>>))
                    /\ created' = created \cup
                           {[user |-> resp'[p].data.user, password |-> req[p].password]}
               ELSE /\ Respond(p, APIResponse(500, FALSE, NoData, <<"Error creating user">>))
                    /\ created' = created
            /\ hist' = [hist EXCEPT ![p].wrote = @ \/ users' # users]
    /\ UNCHANGED <<req, started, deleted, modified>>

CreateUserCheck(p) == ExistsCheck(p, "create_check", "create_insert")

\* A default that ignores the request.
DefaultIsActiveAlways(r) == TRUE

\* isActive := true; if req.IsActive != nil { isActive = *req.IsActive }
DefaultIsActive(r) == IF IsNil(r.is_active) THEN TRUE ELSE Deref(r.is_active)

CreateUserInsert(p) == InsertStep(p, "create_insert", DefaultIsActive(req[p]))

SignupCheck(p) == ExistsCheck(p, "signup_check", "signup_insert")

SignupInsert(p) == InsertStep(p, "signup_insert", TRUE)

(* ------------------------------------------------------------ LoginHandler *)

LoginFailure == APIResponse(401, FALSE, NoData, <<"Invalid credentials">>)
\* An answer that tells the caller the email is unknown.
LoginNoRowsTold == APIResponse(404, FALSE, NoData, <<"User not found">>)
\* err == sql.ErrNoRows
LoginNoRows == LoginFailure
\* bcrypt.CompareHashAndPassword(...) != nil
LoginMismatch == LoginFailure

\* SELECT ... FROM users WHERE email = $1, then the password comparison.
LoginLookup(p) ==
    /\ pc[p] = "login_lookup"
    /\ Statement
    /\ LET found == SelectByEmail(users, req[p].email)
       IN IF found = {}
          THEN Respond(p, LoginNoRows)
          ELSE \E user \in found :
                  IF CompareHashAndPassword(user.password, req[p].password)
                  THEN Respond(p, APIResponse(200, TRUE, UserData(user), <<>>))
                  ELSE Respond(p, LoginMismatch)
    /\ users' = SelectLeaves(users)
    /\ UNCHANGED <<nextId, req, started, deleted, hist, created, modified>>

(* ------------------------------------- GetUserByIDHandler, GetAllUsersHandler *)

NotFound(id) == APIResponse(404, FALSE, NoData, <<"User with ID", id, "not found">>)

\* SELECT ... FROM users WHERE id = $1
GetUserByIDLookup(p) ==
    /\ pc[p] = "get_lookup"
    /\ Statement
    /\ LET found == SelectByID(users, req[p].id.n)
       IN IF found = {}
          THEN Respond(p, NotFound(req[p].id.n))
          ELSE \E user \in found :
                  Respond(p, APIResponse(200, TRUE, UserData(user), <<>>))
    /\ users' = SelectLeaves(users)
    /\ UNCHANGED <<nextId, req, started, deleted, hist, created, modified>>

\* SELECT ... FROM users ORDER BY created_at DESC
GetAllUsersQuery(p) ==
    /\ pc[p] = "list_query"
    /\ Statement
    /\ \E rows \in OrderByCreatedAtDesc(users) :
          Respond(p, APIResponse(200, TRUE,
                     ListData([i \in 1..Len(rows) |-> ToUserResponse(rows[i])]), <<>>))
    /\ users' = SelectLeaves(users)
    /\ UNCHANGED <<nextId, req, started, deleted, hist, created, modified>>

(* -------------------------------------------------------- UpdateUserHandler *)

\* The handler's position after its reads: the merged record, waiting for
\* time.Now() and the UPDATE.
ReadyToUpdate(p, existingUser) ==
    Continue(p, "update_exec",
             [kind |-> "update", existingUser |-> existingUser, since |-> clock'])

\* A handler that never looks for the holder of the new email.
EmailChangesNever(r, existingUser) == FALSE

\* A handler that looks for a holder of every email a patch carries.
EmailChangesWhenPresent(r, existingUser) == ~IsNil(r.email)

\* if req.Email != nil && *req.Email != existingUser.Email
EmailChanges(r, existingUser) ==
    ~IsNil(r.email) /\ Deref(r.email) # existingUser.email

\* SELECT ... FROM users WHERE id = $1 into existingUser
UpdateUserLoad(p) ==
    /\ pc[p] = "update_load"
    /\ Statement
    /\ LET found == SelectByID(users, req[p].id.n)
       IN IF found = {}
          THEN Respond(p, NotFound(req[p].id.n))
          ELSE \E existingUser \in found :
                  IF EmailChanges(req[p], existingUser)
                  THEN Continue(p, "update_email_check",
                                [kind |-> "loaded", existingUser |-> existingUser])
                  ELSE ReadyToUpdate(p, existingUser)
    /\ users' = SelectLeaves(users)
    /\ UNCHANGED <<nextId, req, started, deleted, hist, created, modified>>

\* SELECT id FROM users WHERE email = $1
UpdateUserEmailCheck(p) ==
    /\ pc[p] = "update_email_check"
    /\ Statement
    /\ IF SelectByEmail(users, Deref(req[p].email)) # {}
       THEN /\ Respond(p, APIResponse(409, FALSE, NoData,
                   <<"Email", Deref(req[p].email), "is already taken">>))
       ELSE ReadyToUpdate(p, loc[p].existingUser)
    /\ users' = SelectLeaves(users)
    /\ UNCHANGED <<nextId, req, started, deleted, hist, created, modified>>

\* The field assignments, existingUser.UpdatedAt = time.Now(), then
\* UPDATE users SET ... WHERE id = $6
UpdateUserExec(p) ==
    /\ pc[p] = "update_exec"
    /\ Statement
    /\ \E now \in loc[p].since..clock :
         LET existingUser == MergeUpdate(loc[p].existingUser, req[p], now)
             id == req[p].id.n
         IN /\ users' = UpdateUser(users, id, existingUser)
            /\ IF UpdateRefused(users, id, existingUser)
               THEN Respond(p, APIResponse(500, FALSE, NoData, <<"Error updating user">>))
               ELSE Respond(p, APIResponse(200, TRUE, UserData(existingUser), <<>>))
            /\ hist' = [hist EXCEPT ![p].wrote = @ \/ users' # users]
            /\ modified' = IF users' # users THEN modified \cup {id} ELSE modified
    /\ UNCHANGED <<nextId, req, started, deleted, created>>

(* -------------------------------------------------------- DeleteUserHandler *)

\* SELECT id FROM users WHERE id = $1
DeleteUserCheck(p) ==
    /\ pc[p] = "delete_check"
    /\ Statement
    /\ IF SelectByID(users, req[p].id.n) = {}
       THEN Respond(p, NotFound(req[p].id.n))
       ELSE Continue(p, "delete_exec", NoLocal)
    /\ users' = SelectLeaves(users)
    /\ UNCHANGED <<nextId, req, started, deleted, hist, created, modified>>

\* DELETE FROM users WHERE id = $1
DeleteUserExec(p) ==
    /\ pc[p] = "delete_exec"
    /\ Statement
    /\ users' = DeleteUser(users, req[p].id.n)
    /\ Respond(p, APIResponse(200, TRUE, NoData, <<"User deleted successfully">>))
    /\ hist' = [hist EXCEPT ![p].wrote = @ \/ users' # users]
    /\ deleted' = deleted \cup {req[p].id.n}
    /\ modified' = IF users' # users THEN modified \cup {req[p].id.n} ELSE modified
    /\ UNCHANGED <<nextId, req, started, created>>

(* ------------------------------------------------------------ specification *)

Next ==
    \E p \in Procs :
        \/ StartCreateUser(p)
        \/ StartSignup(p)
        \/ StartLogin(p)
        \/ StartGetUserByID(p)
        \/ StartGetAllUsers(p)
        \/ StartUpdateUser(p)
        \/ StartDeleteUser(p)
        \/ CreateUserCheck(p)
        \/ CreateUserInsert(p)
        \/ SignupCheck(p)
        \/ SignupInsert(p)
        \/ LoginLookup(p)
        \/ GetUserByIDLookup(p)
        \/ GetAllUsersQuery(p)
        \/ UpdateUserLoad(p)
        \/ UpdateUserEmailCheck(p)
        \/ UpdateUserExec(p)
        \/ DeleteUserCheck(p)
        \/ DeleteUserExec(p)

Spec == Init /\ [][Next]_vars

\* The table outlives the process (CREATE TABLE IF NOT EXISTS): a start on a
\* table that holds the row an earlier createUser left.
InitSeeded ==
    /\ users = {[id |-> 1, name |-> "Al", email |-> "a@x.io",
                 password |-> GenerateFromPassword("secret", 1), age |-> Some(30),
                 is_active |-> TRUE, created_at |-> 1, updated_at |-> 1]}
    /\ nextId = 2
    /\ clock = 3
    /\ pc = [p \in Procs |-> "idle"]
    /\ req = [p \in Procs |-> NoReq]
    /\ loc = [p \in Procs |-> NoLocal]
    /\ resp = [p \in Procs |-> NoResp]
    /\ started = 0
    /\ deleted = {}
    /\ hist = [p \in Procs |-> NoHist]
    /\ created = {[user |-> [id |-> 1, name |-> "Al", email |-> "a@x.io",
                             age |-> Some(30), is_active |-> TRUE,
                             created_at |-> 1, updated_at |-> 1],
                   password |-> "secret"]}
    /\ modified = {}

\* The requests of the seeded runs: all of them, the updates being the few of
\* SeededUpdateRequests.
NextSeeded ==
    \E p \in Procs :
        \/ StartCreateUser(p)
        \/ StartSignup(p)
        \/ StartLogin(p)
        \/ StartGetUserByID(p)
        \/ StartGetAllUsers(p)
        \/ StartSeededUpdateUser(p)
        \/ StartDeleteUser(p)
        \/ CreateUserCheck(p)
        \/ CreateUserInsert(p)
        \/ SignupCheck(p)
        \/ SignupInsert(p)
        \/ LoginLookup(p)
        \/ GetUserByIDLookup(p)
        \/ GetAllUsersQuery(p)
        \/ UpdateUserLoad(p)
        \/ UpdateUserEmailCheck(p)
        \/ UpdateUserExec(p)
        \/ DeleteUserCheck(p)
        \/ DeleteUserExec(p)

SpecSeeded == InitSeeded /\ [][NextSeeded]_vars

(* ------------------------------------------------------------------ claims *)

Creation(p) == req[p].op \in {"createUser", "signup"}
Mutation(p) == req[p].op \in {"createUser", "signup", "updateUser", "deleteUser"}
\* Slot p's request was answered after running by itself from start to end.
RanAlone(p) == Done(p) /\ hist[p].with = {}
\* The requests held by slots p and q overlapped in time and both are answered.
Raced(p, q) ==
    /\ p # q /\ Done(p) /\ Done(q)
    /\ q \in hist[p].with /\ p \in hist[q].with
\* The password a hash was made from.
PasswordOf(hash) == hash.digest[2]

\* C1: in every reachable state no two rows of the table have the same email.
C1_EmailUnique ==
    \A u \in users : \A v \in users : u.email = v.email => u = v

\* C1 witness: an INSERT was refused by the constraint while a row held the email.
C1_Witness ==
    \E p \in Procs :
        /\ Done(p) /\ Creation(p) /\ resp[p].status = 500
        /\ EmailHeld(req[p].email)

\* C2: of two overlapping createUser/signup calls with one email that no row
\* held when they were accepted, one answers 201 and the other 409.
C2_OneCreatedOneConflict ==
    \A p \in Procs : \A q \in Procs :
        ( /\ Raced(p, q) /\ Creation(p) /\ Creation(q)
          /\ req[p].email = req[q].email
          /\ hist[p].emailFree /\ hist[q].emailFree
          /\ resp[p].status # 400 /\ resp[q].status # 400 )
        => {resp[p].status, resp[q].status} = {201, 409}

\* C3: when an updateUser that changes a row's email overlaps with a
\* createUser/signup, or an updateUser of another row, aiming at the same
\* free email, one of the two succeeds and the other answers 409; and no
\* updateUser answers a refused write with anything but 409.
C3_OneWinsOtherConflicts ==
    /\ \A p \in Procs : \A q \in Procs :
        ( /\ Raced(p, q)
          /\ req[p].op = "updateUser" /\ ~IsNil(req[p].email)
          /\ \/ Creation(q) /\ req[q].email = Deref(req[p].email)
             \/ /\ req[q].op = "updateUser" /\ req[q].email = req[p].email
                /\ req[q].id # req[p].id
          /\ hist[p].emailFree /\ hist[q].emailFree
          /\ resp[p].status \notin {400, 404} /\ resp[q].status \notin {400, 404} )
        => \/ resp[p].success /\ resp[q].status = 409
           \/ resp[q].success /\ resp[p].status = 409
    /\ \A p \in Procs :
        (Done(p) /\ req[p].op = "updateUser") => resp[p].status # 500

\* C4: login answers 200 iff, when it looks the email up, a row has that email
\* and the password is the one the row's hash was made from; otherwise 401.
C4_LoginIffCredentials ==
    [][\A p \in Procs :
         (pc[p] = "login_lookup" /\ pc'[p] = "done") =>
            LET match == {u \in users : /\ u.email = req[p].email
                                        /\ PasswordOf(u.password) = req[p].password}
            IN /\ resp'[p].status = 200 <=> match # {}
               /\ resp'[p].status = 200 =>
                     \E u \in match : resp'[p] = APIResponse(200, TRUE, UserData(u), <<>>)
               /\ match = {} => resp'[p].status = 401]_vars

\* C4 witness: one login was accepted and one was refused for its password.
C4_Witness ==
    \E p \in Procs : \E q \in Procs :
        /\ Done(p) /\ req[p].op = "login" /\ resp[p].status = 200
        /\ Done(q) /\ req[q].op = "login" /\ resp[q].status = 401
        /\ req[q].email = req[p].email

\* C5: a refused login has one and the same response whether the email is
\* unknown or the password is wrong.
C5_RefusalsAlike ==
    \A p \in Procs : \A q \in Procs :
        ( /\ Done(p) /\ req[p].op = "login" /\ resp[p].status # 400 /\ ~resp[p].success
          /\ Done(q) /\ req[q].op = "login" /\ resp[q].status # 400 /\ ~resp[q].success )
        => /\ resp[p] = resp[q]
           /\ resp[p].data = NoData

\* C5 witness: two refused logins, one for an email no row holds, one for an
\* email a row holds.
C5_Witness ==
    \E p \in Procs : \E q \in Procs :
        /\ Done(p) /\ req[p].op = "login" /\ resp[p].status = 401
        /\ Done(q) /\ req[q].op = "login" /\ resp[q].status = 401
        /\ ~EmailHeld(req[p].email)
        /\ EmailHeld(req[q].email)

\* C6: a createUser or signup, run by itself, whose email a row already holds
\* answers 409 and writes nothing.
C6_DuplicateCreateConflicts ==
    \A p \in Procs :
        ( /\ RanAlone(p) /\ Creation(p) /\ resp[p].status # 400
          /\ ~hist[p].emailFree )
        => /\ resp[p].status = 409
           /\ ~hist[p].wrote

\* C6 witness: a signup answered 409 after running by itself.
C6_Witness ==
    \E p \in Procs :
        /\ RanAlone(p) /\ req[p].op = "signup" /\ ~hist[p].emailFree
        /\ resp[p].status = 409

\* C7: a successful updateUser run by itself sets exactly the fields present
\* in the patch, keeps every other field and every other row, and sets
\* updated_at later than it was.
C7_PartialUpdate ==
    [][\A p \in Procs :
         ( /\ pc[p] = "update_exec" /\ pc'[p] = "done" /\ resp'[p].success
           /\ hist[p].with = {} )
         => \E old \in users : \E new \in users' :
               /\ old.id = req[p].id.n /\ new.id = old.id
               /\ new.name = IF IsNil(req[p].name) THEN old.name ELSE Deref(req[p].name)
               /\ new.email = IF IsNil(req[p].email) THEN old.email ELSE Deref(req[p].email)
               /\ new.age = IF IsNil(req[p].age) THEN old.age ELSE req[p].age
               /\ new.is_active = IF IsNil(req[p].is_active) THEN old.is_active
                                  ELSE Deref(req[p].is_active)
               /\ new.password = old.password
               /\ new.created_at = old.created_at
               /\ new.updated_at > old.updated_at
               /\ users' \ {new} = users \ {old}]_vars

\* C7 witness: an updateUser run by itself succeeded with a patch that has a
\* name and no age.
C7_Witness ==
    \E p \in Procs :
        /\ RanAlone(p) /\ req[p].op = "updateUser" /\ resp[p].success
        /\ ~IsNil(req[p].name) /\ IsNil(req[p].age)
        /\ \E u \in users : u.id = req[p].id.n /\ u.name = Deref(req[p].name) /\ ~IsNil(u.age)

\* C8: when updateUser answers 200, the table holds a row with that id and the
\* values of the response.
C8_SuccessIsStored ==
    [][\A p \in Procs :
         (pc[p] = "update_exec" /\ pc'[p] = "done" /\ resp'[p].success)
         => \E u \in users' :
               /\ u.id = req[p].id.n
               /\ ToUserResponse(u) = resp'[p].data.user]_vars

\* C9: a createUser, signup, updateUser or deleteUser that answers without
\* success has written nothing to the table.
C9_FailureWritesNothing ==
    \A p \in Procs :
        (Done(p) /\ Mutation(p) /\ ~resp[p].success) => ~hist[p].wrote

\* C9 witness: an UPDATE refused by the constraint, answered 500.
C9_Witness ==
    \E p \in Procs :
        /\ Done(p) /\ req[p].op = "updateUser" /\ resp[p].status = 500
        /\ users # {}

\* C10: a getById or deleteUser accepted after a deleteUser of the same id
\* answered success answers 404.
C10_DeletedStaysGone ==
    \A p \in Procs :
        ( /\ Done(p) /\ req[p].op \in {"getById", "deleteUser"}
          /\ hist[p].afterDelete )
        => resp[p].status = 404

\* C10 witness: after the deleteUser of id 1 succeeded and another request
\* wrote a row, a getById of id 1 answered 404.
C10_Witness ==
    \E p \in Procs :
        /\ Done(p) /\ req[p].op = "getById" /\ hist[p].afterDelete
        /\ resp[p].status = 404
        /\ users # {}

\* The user of a 201 answer, as the 200 answer of a later read carries it.
SameUser(user) == APIResponse(200, TRUE, [kind |-> "user", user |-> user], <<>>)
\* The ids the 201 answers so far carried.
IssuedIds == {c.user.id : c \in created}

\* C11: a createUser or signup with a well-formed body that runs by itself
\* and whose email no row held when it was accepted answers 201 and stores a
\* row; and the id of every 201 answer differs from the id of every 201
\* answer before it, the ones whose rows were deleted since included.
C11_CreateSucceedsWithFreshId ==
    [][\A p \in Procs :
         (Creation(p) /\ InFlight(p) /\ pc'[p] = "done") =>
            /\ (hist[p].with = {} /\ hist[p].emailFree) => resp'[p].status = 201
            /\ resp'[p].status = 201 =>
                  /\ resp'[p].data.user.id \notin IssuedIds
                  /\ \E u \in users' \ users : u.id = resp'[p].data.user.id]_vars

\* C11 witness: a createUser run by itself answered 201 after the row of an
\* earlier 201 answer was deleted, with an id that is not the deleted one.
C11_Witness ==
    \E p \in Procs :
        /\ RanAlone(p) /\ req[p].op = "createUser" /\ hist[p].emailFree
        /\ resp[p].status = 201
        /\ \E d \in deleted \cap IssuedIds :
              /\ d # resp[p].data.user.id
              /\ \A u \in users : u.id # d

\* C12: a getById whose lookup runs before any UPDATE or DELETE changed the
\* row of a 201 answer carries the user of that answer, field by field.
C12_GetByIdEqualsCreateResponse ==
    [][\A p \in Procs :
         (pc[p] = "get_lookup" /\ pc'[p] = "done") =>
            \A c \in created :
               (c.user.id = req[p].id.n /\ c.user.id \notin modified)
               => resp'[p] = SameUser(c.user)]_vars

\* C12 witness: a getById answered 200 with the user of a 201 answer whose
\* row nothing changed, age included.
C12_Witness ==
    \E p \in Procs : \E c \in created :
        /\ Done(p) /\ req[p].op = "getById" /\ req[p].id.n = c.user.id
        /\ c.user.id \notin modified /\ ~IsNil(c.user.age)
        /\ resp[p] = SameUser(c.user)

\* C13: a login with the email and the password of a createUser or signup
\* that answered 201, whose lookup runs before any UPDATE or DELETE changed
\* that row, answers 200 with the user of the 201 answer.
C13_LoginAfterCreate ==
    [][\A p \in Procs :
         (pc[p] = "login_lookup" /\ pc'[p] = "done") =>
            \A c \in created :
               ( /\ c.user.email = req[p].email /\ c.password = req[p].password
                 /\ c.user.id \notin modified )
               => resp'[p] = SameUser(c.user)]_vars

\* C13 witness: a login answered 200 with the user of the 201 answer of a
\* signup.
C13_Witness ==
    \E p \in Procs : \E c \in created :
        /\ Done(p) /\ req[p].op = "login" /\ req[p].email = c.user.email
        /\ req[p].password = c.password /\ c.password = "hunter2"
        /\ c.user.id \notin modified
        /\ resp[p].status = 200 /\ resp[p].data.user = c.user

\* The fields of models.UserResponse.
PublicFields ==
    {"id", "name", "email", "age", "is_active", "created_at", "updated_at"}

\* C14: every user a response carries, by itself or in a list, has exactly
\* the fields id, name, email, age, is_active, created_at and updated_at: no
\* password and no hash.
C14_NoPasswordInResponses ==
    \A p \in Procs :
        /\ DOMAIN resp[p] = {"status", "success", "data", "message"}
        /\ resp[p].data.kind = "user" => DOMAIN resp[p].data.user = PublicFields
        /\ resp[p].data.kind = "list" =>
              \A i \in 1..Len(resp[p].data.users) :
                 DOMAIN resp[p].data.users[i] = PublicFields

\* C14 witness: a login answered with a user and a listAll answered with a
\* list that is not empty.
C14_Witness ==
    \E p \in Procs : \E q \in Procs :
        /\ Done(p) /\ req[p].op = "login" /\ resp[p].data.kind = "user"
        /\ Done(q) /\ req[q].op = "listAll" /\ resp[q].data.kind = "list"
        /\ Len(resp[q].data.users) > 0

\* C15: an updateUser run by itself whose patch has an email that, when it
\* was accepted, a row other than its own held answers 409 and writes
\* nothing: both rows stay as they were, updated_at included.
C15_TakenEmailConflicts ==
    \A p \in Procs :
        (RanAlone(p) /\ req[p].op = "updateUser" /\ hist[p].emailTaken)
        => /\ resp[p].status = 409
           /\ ~hist[p].wrote

\* C15 witness: with two rows in the table, an updateUser run by itself that
\* asked for the email of the other row was answered 409.
C15_Witness ==
    \E p \in Procs :
        /\ RanAlone(p) /\ req[p].op = "updateUser" /\ hist[p].emailTaken
        /\ resp[p].status = 409
        /\ \E u \in users : \E v \in users :
              /\ u.id = req[p].id.n /\ v.id # u.id
              /\ v.email = Deref(req[p].email) /\ u.updated_at = u.created_at

\* C16: a createUser with age 200 is answered 400 and creates no row.
C16_AgeOutOfRangeRejected ==
    \A p \in Procs :
        (Done(p) /\ req[p].op = "createUser" /\ req[p].age = Some(200))
        => /\ resp[p].status = 400
           /\ ~hist[p].wrote

\* The body has a name shorter than 2 or longer than 100 characters, an email
\* that is missing or no address, or a password shorter than 6 characters.
Malformed(r) ==
    \/ Len(r.name) < MinNameLen \/ Len(r.name) > MaxNameLen
    \/ r.email \notin Emails
    \/ Len(r.password) < MinPasswordLen

\* C17: a createUser or signup with a malformed body is answered 400 without
\* ever reaching a statement: it reads nothing and writes nothing.
C17_MalformedRejectedUnread ==
    \A p \in Procs :
        (Creation(p) /\ Malformed(req[p]))
        => /\ Done(p)
           /\ resp[p].status = 400 /\ ~resp[p].success
           /\ ~hist[p].wrote

\* C17 witness: a createUser with a name of 101 characters and a signup
\* without email were answered 400.
C17_Witness ==
    \E p \in Procs : \E q \in Procs :
        /\ Done(p) /\ req[p].op = "createUser" /\ Len(req[p].name) > MaxNameLen
        /\ resp[p].status = 400
        /\ Done(q) /\ req[q].op = "signup" /\ req[q].email = ""
        /\ resp[q].status = 400

\* C18: in every reachable state every row has updated_at >= created_at.
C18_UpdatedNotBeforeCreated ==
    \A u \in users : u.updated_at >= u.created_at

\* C18 witness: a row that an updateUser wrote: updated_at > created_at.
C18_Witness ==
    \E u \in users : u.updated_at > u.created_at

\* C19: no step changes the created_at of a row or gives a row another id:
\* every row keeps the id and created_at of the 201 answer that created it,
\* and an UPDATE leaves the ids of the table as they are.
C19_IdAndCreatedAtKept ==
    [][/\ \A u \in users : \A v \in users' :
             v.id = u.id => v.created_at = u.created_at
       /\ \A c \in created' : \A v \in users' :
             v.id = c.user.id => v.created_at = c.user.created_at
       /\ \A p \in Procs :
             (pc[p] = "update_exec" /\ pc'[p] = "done")
             => {v.id : v \in users'} = {u.id : u \in users}]_vars

\* C19 witness: the row of a 201 answer after an UPDATE changed it.
C19_Witness ==
    \E c \in created : \E u \in users :
        /\ u.id = c.user.id /\ u.id \in modified
        /\ u.created_at = c.user.created_at

\* C20: the row a createUser stores has the is_active of the request when it
\* has one and true when it has none; the row a signup stores has true.
C20_IsActiveDefault ==
    [][\A p \in Procs :
         ( /\ pc[p] \in {"create_insert", "signup_insert"} /\ pc'[p] = "done"
           /\ resp'[p].status = 201 )
         => \E u \in users' \ users :
               /\ u.id = resp'[p].data.user.id
               /\ resp'[p].data.user.is_active = u.is_active
               /\ u.is_active =
                     IF req[p].op = "createUser" /\ ~IsNil(req[p].is_active)
                     THEN Deref(req[p].is_active)
                     ELSE TRUE]_vars

\* C20 witness: a createUser that asked for is_active false stored an
\* inactive row, and a signup stored an active one.
C20_Witness ==
    \E p \in Procs : \E q \in Procs :
        /\ Done(p) /\ req[p].op = "createUser" /\ req[p].is_active = Some(FALSE)
        /\ resp[p].status = 201
        /\ \E u \in users : u.id = resp[p].data.user.id /\ ~u.is_active
        /\ Done(q) /\ req[q].op = "signup" /\ resp[q].status = 201
        /\ \E u \in users : u.id = resp[q].data.user.id /\ u.is_active

\* The public fields of a row, read off the row itself.
Projection(u) == [f \in PublicFields |-> u[f]]

\* C21: listAll answers 200 with the projection of every row the table holds
\* when the query runs, each exactly once, ordered by created_at from newest
\* to oldest.
C21_ListAllNewestFirst ==
    [][\A p \in Procs :
         (pc[p] = "list_query" /\ pc'[p] = "done") =>
            /\ resp'[p].status = 200 /\ resp'[p].success
            /\ resp'[p].data.kind = "list"
            /\ LET l == resp'[p].data.users
               IN /\ Len(l) = Cardinality(users)
                  /\ \A u \in users : \E i \in 1..Len(l) : l[i] = Projection(u)
                  /\ \A i \in 1..(Len(l) - 1) :
                        l[i].created_at >= l[i + 1].created_at]_vars

\* C21 witness: a listAll answered with two users, the newer one first.
C21_Witness ==
    \E p \in Procs :
        /\ Done(p) /\ req[p].op = "listAll" /\ resp[p].status = 200
        /\ Len(resp[p].data.users) = 2
        /\ resp[p].data.users[1].created_at > resp[p].data.users[2].created_at

\* C22: a getById, updateUser or deleteUser whose lookup finds no row with
\* its id answers 404 at that statement and leaves the table as it is.
C22_AbsentIdNotFound ==
    [][\A p \in Procs :
         ( /\ req[p].op \in {"getById", "updateUser", "deleteUser"}
           /\ pc[p] \in {"get_lookup", "update_load", "delete_check"}
           /\ pc'[p] # pc[p]
           /\ \A u \in users : u.id # req[p].id.n )
         => /\ pc'[p] = "done"
            /\ resp'[p].status = 404 /\ ~resp'[p].success
            /\ resp'[p].data = NoData
            /\ users' = users]_vars

\* C22 witness: on a table that holds a row, an updateUser and a deleteUser
\* of an id no row ever had were answered 404.
C22_Witness ==
    \E i \in Ids \ IssuedIds :
        /\ users # {}
        /\ \A op \in {"updateUser", "deleteUser"} :
              \E p \in Procs :
                 /\ Done(p) /\ req[p].op = op /\ req[p].id.numeric
                 /\ req[p].id.n = i /\ resp[p].status = 404

\* What an updateUser that overlapped no other request has done when it
\* answers: 404 for an id no row has, 409 for an email another row holds,
\* and otherwise 200 with the row changed in the fields the patch carries
\* and in updated_at, and in nothing else.
UpdateOutcome(p) ==
    LET r == req[p]
        old == {u \in users : u.id = r.id.n}
    IN IF old = {}
       THEN resp'[p].status = 404 /\ users' = users
       ELSE \A o \in old :
               IF /\ ~IsNil(r.email) /\ Deref(r.email) # o.email
                  /\ \E v \in users : v.email = Deref(r.email)
               THEN resp'[p].status = 409 /\ users' = users
               ELSE \E n \in users' :
                       /\ n.id = o.id
                       /\ n.name = IF IsNil(r.name) THEN o.name ELSE Deref(r.name)
                       /\ n.email = IF IsNil(r.email) THEN o.email ELSE Deref(r.email)
                       /\ n.age = IF IsNil(r.age) THEN o.age ELSE r.age
                       /\ n.is_active = IF IsNil(r.is_active) THEN o.is_active
                                        ELSE Deref(r.is_active)
                       /\ n.password = o.password
                       /\ n.created_at = o.created_at
                       /\ n.updated_at > o.updated_at
                       /\ users' \ {n} = users \ {o}
                       /\ resp'[p] = SameUser(Projection(n))

\* C23: PUT and PATCH are one operation: sent with either verb, an
\* updateUser that overlaps no other request gives the answer and the table
\* that the table, the id and the patch determine, merging only the fields
\* the patch carries.
C23_PutAndPatchAlike ==
    [][\A p \in Procs : \A m \in {"PUT", "PATCH"} :
         ( /\ req[p].op = "updateUser" /\ req[p].method = m
           /\ InFlight(p) /\ pc'[p] = "done" /\ hist[p].with = {} )
         => UpdateOutcome(p)]_vars

\* C23 witness: the same patch of the same row was sent with PUT and with
\* PATCH, and the two 200 answers differ in updated_at alone.
C23_Witness ==
    \E p \in Procs : \E q \in Procs :
        /\ RanAlone(p) /\ req[p].op = "updateUser" /\ req[p].method = "PUT"
        /\ RanAlone(q) /\ req[q] = [req[p] EXCEPT !.method = "PATCH"]
        /\ resp[p].status = 200 /\ resp[q].status = 200
        /\ \A f \in PublicFields \ {"updated_at"} :
              resp[p].data.user[f] = resp[q].data.user[f]

\* The fields a patch may carry.
PatchFields == {"name", "email", "age", "is_active"}
\* Row u has the value of every field patch r carries.
Carries(u, r) ==
    /\ ~IsNil(r.name) => u.name = Deref(r.name)
    /\ ~IsNil(r.email) => u.email = Deref(r.email)
    /\ ~IsNil(r.age) => u.age = r.age
    /\ ~IsNil(r.is_active) => u.is_active = Deref(r.is_active)
\* Slots p and q hold the only two requests accepted so far, they overlapped
\* and both are answered.
OnlyTwoRaced(p, q) == Raced(p, q) /\ started = 2

\* C24: after two overlapping, successful updateUser calls on one id whose
\* patches carry disjoint fields, the row has the values of both patches.
C24_DisjointUpdatesBothKept ==
    \A p \in Procs : \A q \in Procs :
        ( /\ OnlyTwoRaced(p, q)
          /\ req[p].op = "updateUser" /\ req[q].op = "updateUser"
          /\ req[p].id = req[q].id
          /\ \A f \in PatchFields : IsNil(req[p][f]) \/ IsNil(req[q][f])
          /\ resp[p].status = 200 /\ resp[q].status = 200 )
        => \E u \in users :
              /\ u.id = req[p].id.n
              /\ Carries(u, req[p]) /\ Carries(u, req[q])

\* C25: a deleteUser answers 200 only if its own DELETE removed the row: of
\* two overlapping deleteUser calls on the id of a row, one answers 200 and
\* the other 404.
C25_OneDeleteSucceeds ==
    /\ \A p \in Procs :
          (Done(p) /\ req[p].op = "deleteUser" /\ resp[p].status = 200)
          => hist[p].wrote
    /\ \A p \in Procs : \A q \in Procs :
          ( /\ OnlyTwoRaced(p, q)
            /\ req[p].op = "deleteUser" /\ req[q].op = "deleteUser"
            /\ req[p].id = req[q].id /\ req[p].id.n \in IssuedIds )
          => {resp[p].status, resp[q].status} = {200, 404}

\* C26: no step changes the password hash of a row; a login with the
\* password a row was created with answers 200 with that row when sent with
\* the email the row has now, and 401 when sent with the email the row was
\* created with, has no longer, and no other row holds.
C26_UpdateKeepsPassword ==
    [][/\ \A u \in users : \A v \in users' :
             v.id = u.id => v.password = u.password
       /\ \A p \in Procs :
             (pc[p] = "login_lookup" /\ pc'[p] = "done") =>
                \A c \in created : \A u \in users :
                   (u.id = c.user.id /\ req[p].password = c.password) =>
                      /\ req[p].email = u.email
                            => resp'[p] = SameUser(Projection(u))
                      /\ ( /\ req[p].email = c.user.email
                           /\ u.email # c.user.email
                           /\ ~EmailHeld(c.user.email) )
                            => resp'[p].status = 401]_vars

\* C26 witness: after an updateUser gave a row another email, a login with
\* the new email and the creation password answered 200 and a login with
\* the old email answered 401.
C26_Witness ==
    \E p \in Procs : \E q \in Procs : \E c \in created : \E u \in users :
        /\ u.id = c.user.id /\ u.id \in modified /\ u.email # c.user.email
        /\ Done(p) /\ req[p].op = "login" /\ req[p].email = u.email
        /\ req[p].password = c.password /\ resp[p].status = 200
        /\ resp[p].data.user.id = u.id
        /\ Done(q) /\ req[q].op = "login" /\ req[q].email = c.user.email
        /\ req[q].password = c.password /\ resp[q].status = 401

\* The email was given to a row by a 201 answer, and since then a deleteUser
\* of that row answered 200 or the row has another email; no other row holds
\* the email.
Freed(email) ==
    \E c \in created :
        /\ c.user.email = email
        /\ \/ c.user.id \in deleted
           \/ \E u \in users : u.id = c.user.id /\ u.email # email
        /\ \A u \in users : u.email = email => u.id = c.user.id

\* C27: a createUser or signup that overlaps no other request and asks for
\* a freed email answers 201 and stores a row with that email and an id no
\* 201 answer carried before.
C27_FreedEmailReusable ==
    [][\A p \in Procs :
         ( /\ Creation(p) /\ InFlight(p) /\ pc'[p] = "done"
           /\ hist[p].with = {} /\ Freed(req[p].email) )
         => /\ resp'[p].status = 201
            /\ resp'[p].data.user.id \notin IssuedIds
            /\ \E u \in users' \ users :
                  /\ u.id = resp'[p].data.user.id
                  /\ u.email = req[p].email]_vars

\* C27 witness: a row was moved to another email by an updateUser, and a
\* signup with the email it was created with answered 201 with a new id.
C27_Witness ==
    \E p \in Procs : \E c \in created : \E u \in users : \E v \in users :
        /\ u.id = c.user.id /\ u.id \in modified /\ u.email # c.user.email
        /\ RanAlone(p) /\ req[p].op = "signup" /\ req[p].email = c.user.email
        /\ resp[p].status = 201
        /\ v.id = resp[p].data.user.id /\ v.id # u.id /\ v.email = c.user.email

\* C28: an updateUser that overlaps no other request and whose patch carries
\* the email its row already has answers 200 without a conflict, keeps the
\* email, sets the other fields the patch carries and moves updated_at on.
C28_OwnEmailIsNoConflict ==
    [][\A p \in Procs :
         ( /\ req[p].op = "updateUser" /\ InFlight(p) /\ pc'[p] = "done"
           /\ hist[p].with = {} /\ ~IsNil(req[p].email) )
         => \A o \in users :
               (o.id = req[p].id.n /\ o.email = Deref(req[p].email)) =>
                  /\ pc[p] = "update_exec"
                  /\ resp'[p].status = 200 /\ resp'[p].success
                  /\ resp'[p].data.user.email = o.email
                  /\ \E n \in users' :
                        /\ n.id = o.id /\ n.email = o.email
                        /\ Carries(n, req[p])
                        /\ IsNil(req[p].name) => n.name = o.name
                        /\ IsNil(req[p].age) => n.age = o.age
                        /\ IsNil(req[p].is_active) => n.is_active = o.is_active
                        /\ n.updated_at > o.updated_at
                        /\ resp'[p].data.user.updated_at = n.updated_at]_vars

\* C28 witness: an updateUser with a new name and the row's own email was
\* answered 200, and the row has the new name, its email and a later
\* updated_at.
C28_Witness ==
    \E p \in Procs : \E u \in users :
        /\ RanAlone(p) /\ req[p] \in OwnEmailUpdateRequests
        /\ resp[p].status = 200
        /\ u.id = req[p].id.n /\ u.email = Deref(req[p].email)
        /\ u.name = Deref(req[p].name) /\ u.updated_at > u.created_at
        /\ resp[p].data.user = Projection(u)

\* C29: no step of a getById, listAll or login, whatever it answers,
\* changes the table or the sequence of ids.
C29_ReadsArePure ==
    [][\A p \in Procs :
         ( /\ req[p].op \in {"getById", "listAll", "login"}
           /\ InFlight(p) /\ pc'[p] # pc[p] )
         => /\ users' = users
            /\ nextId' = nextId]_vars

\* C29 witness: on a table that holds a row, a login was answered 401 and a
\* getById 404, and the row is as it was created.
C29_Witness ==
    \E p \in Procs : \E q \in Procs :
        /\ Done(p) /\ req[p].op = "login" /\ resp[p].status = 401
        /\ Done(q) /\ req[q].op = "getById" /\ resp[q].status = 404
        /\ \E c \in created : \E u \in users :
              Projection(u) = c.user /\ u.email = req[p].email

====
